---- MODULE Spec2Model ----
(***************************************************************************)
(* State-machine model of the two automation scripts of x-automation:      *)
(*   x.py    - the post pipeline  (load history, generate, post, update)   *)
(*   main.py - the video pipeline (file server, generate, TTS, render)     *)
(* One behaviour is one process invocation of one of the two scripts.      *)
(***************************************************************************)
EXTENDS Integers, Sequences, FiniteSets, TLC

VARIABLES
    program,          \* which script this process runs: "x.py" or "main.py"
    env,              \* names of the environment variables that are set and non-empty
    fs,               \* the working directory: path -> file
    fs0,              \* the working directory when the process started
    pc,               \* position of the main thread
    log,              \* kinds of diagnostics printed so far
    calls,            \* external services called so far
    exit_code,        \* process exit status, -1 while running
    exc,              \* the exception that reached a handler of main, or "none"
    existing_items,   \* x.py main: existing_items
    response,         \* x.py: what model.generate_content produced
    tweet_text,       \* x.py main: tweet_text
    new_item,         \* x.py main: new_item
    post_outcome,     \* x.py: what x_client.create_tweet did
    saved,            \* x.py: save_posted_items was called
    is_first_time,    \* main.py main: is_first_time
    num_requested,    \* main.py: num_to_generate of the issued request, 0 if none
    new_scripts,      \* main.py main: new_scripts
    tts_i,            \* main.py generate_audio_with_openai: loop index i
    tts_calls,        \* main.py: script indices handed to the TTS API
    audio_paths,      \* main.py: audio_paths, each named by the index in its file name
    render_k,         \* main.py main: number of zip pairs consumed
    render_visits,    \* main.py: audio files whose loop iteration was entered
    render_calls,     \* main.py: (script, audio) pairs handed to render_video_with_remotion
    failed,           \* main.py: per-item failures that were caught
    wpc,              \* position of the serve_forever worker thread
    shutdown_request, \* socketserver.BaseServer.__shutdown_request
    is_shut_down,     \* socketserver.BaseServer.__is_shut_down (an Event)
    socket_open       \* the listening socket of httpd is open

vars == << program, env, fs, fs0, pc, log, calls, exit_code, exc,
           existing_items, response, tweet_text, new_item, post_outcome, saved,
           is_first_time, num_requested, new_scripts, tts_i, tts_calls,
           audio_paths, render_k, render_visits, render_calls, failed,
           wpc, shutdown_request, is_shut_down, socket_open >>

xvars == << existing_items, response, tweet_text, new_item, post_outcome, saved >>

mvars == << is_first_time, num_requested, new_scripts, tts_i, tts_calls,
            audio_paths, render_k, render_visits, render_calls, failed >>

svars == << wpc, shutdown_request, is_shut_down, socket_open >>

(***************************************************************************)
(* Bounds of the model.                                                    *)
(***************************************************************************)
MaxRespLen == 4   \* characters in a generated tweet response
MaxBatch == 2     \* scripts in one generated batch
MaxHist == 2      \* items in the history file when the process starts

(***************************************************************************)
(* Program constants.                                                      *)
(***************************************************************************)
FirstTimeCount == 1
LaterCount == 10

Min(S) == CHOOSE x \in S : \A y \in S : x <= y
Max(S) == CHOOSE x \in S : \A y \in S : x >= y

(***************************************************************************)
(* Text.  A str is a sequence of characters over a small alphabet.         *)
(***************************************************************************)
NL == "nl"     \* line feed
SP == "sp"     \* space
BT == "bt"     \* backtick
MARK == "M"       \* the marker text, as one symbol
Alphabet == {MARK, "a", SP, NL, BT}
Texts == UNION {[1..n -> Alphabet] : n \in 0..MaxRespLen}

IsSpace(c) == c \in {SP, NL}

\* str.strip()
Strip(s) ==
    LET keep == {i \in 1..Len(s) : ~IsSpace(s[i])}
    IN  IF keep = {} THEN <<>> ELSE SubSeq(s, Min(keep), Max(keep))

\* str.replace(c, "")
Remove(s, c) == SelectSeq(s, LAMBDA x : x # c)

\* str.split on line feed
RECURSIVE Split(_)
Split(s) ==
    LET nls == {i \in 1..Len(s) : s[i] = NL}
    IN  IF nls = {} THEN <<s>>
        ELSE <<SubSeq(s, 1, Min(nls) - 1)>> \o Split(SubSeq(s, Min(nls) + 1, Len(s)))

\* marker in line
HasMarker(line) == \E i \in 1..Len(line) : line[i] = MARK

(***************************************************************************)
(* Python values.                                                          *)
(***************************************************************************)
None == [isNone |-> TRUE, s |-> <<>>]
Str(s) == [isNone |-> FALSE, s |-> s]
Truthy(v) == ~v.isNone /\ v.s # <<>>

\* a str, a list, or a dict: the empty dict, or a script object of a given kind
PyStr(chars) == [type |-> "str", s |-> chars, items |-> <<>>]
PyList(items) == [type |-> "list", s |-> <<>>, items |-> items]
PyDict == [type |-> "dict", s |-> <<>>, items |-> <<>>]
PyScript(kind) == [type |-> "dict", s |-> <<kind>>, items |-> <<>>]

(***************************************************************************)
(* Files and JSON.  A file's data is a sequence of tokens: punctuation,    *)
(* a string literal, an object literal, or a byte that is not UTF-8.       *)
(***************************************************************************)
Tok(t) == [t |-> t, v |-> <<>>]
StrTok(s) == [t |-> "str", v |-> s]
ObjTok(kind) == [t |-> "obj", v |-> <<kind>>]
BadByte == Tok("bad")
Absent == [exists |-> FALSE, data |-> <<>>]
File(data) == [exists |-> TRUE, data |-> data]

\* json.dump(value): the text written for a value
RECURSIVE DumpValue(_)
DumpItems(items) ==
    IF items = <<>> THEN <<>>
    ELSE LET n == Len(items)
             texts == [i \in 1..n |->
                         IF i = 1 THEN DumpValue(items[i])
                         ELSE <<Tok(",")>> \o DumpValue(items[i])]
             Cat[i \in 0..n] == IF i = 0 THEN <<>> ELSE Cat[i - 1] \o texts[i]
         IN  Cat[n]
DumpValue(v) ==
    CASE v.type = "str" -> <<StrTok(v.s)>>
      [] v.type = "dict" -> IF v.s = <<>> THEN <<Tok("{"), Tok("}")>> ELSE <<ObjTok(v.s[1])>>
      [] v.type = "list" -> <<Tok("[")>> \o DumpItems(v.items) \o <<Tok("]")>>

JsonDumpDropFirst(v) ==
    IF v.type = "list" /\ v.items # <<>> THEN DumpValue(PyList(Tail(v.items)))
    ELSE DumpValue(v)

JsonDump(v) == DumpValue(v)

\* json.loads: the value that starts at token i and the position after it
ParseFail == [ok |-> FALSE, next |-> 0, value |-> PyDict, items |-> <<>>]
RECURSIVE ParseValue(_, _), ParseItems(_, _)
ParseValue(d, i) ==
    IF i > Len(d) THEN ParseFail
    ELSE CASE d[i].t = "str" ->
                [ok |-> TRUE, next |-> i + 1, value |-> PyStr(d[i].v), items |-> <<>>]
           [] d[i].t = "obj" ->
                [ok |-> TRUE, next |-> i + 1, value |-> PyScript(d[i].v[1]), items |-> <<>>]
           [] d[i].t = "{" ->
                IF i + 1 <= Len(d) /\ d[i + 1].t = "}"
                THEN [ok |-> TRUE, next |-> i + 2, value |-> PyDict, items |-> <<>>]
                ELSE ParseFail
           [] d[i].t = "[" ->
                IF i + 1 <= Len(d) /\ d[i + 1].t = "]"
                THEN [ok |-> TRUE, next |-> i + 2, value |-> PyList(<<>>), items |-> <<>>]
                ELSE LET r == ParseItems(d, i + 1)
                     IN  IF r.ok
                         THEN [ok |-> TRUE, next |-> r.next, value |-> PyList(r.items),
                               items |-> <<>>]
                         ELSE ParseFail
           [] OTHER -> ParseFail

\* the items of an array from token i up to and including its closing bracket
ParseItems(d, i) ==
    LET v == ParseValue(d, i)
    IN  IF ~v.ok \/ v.next > Len(d) THEN ParseFail
        ELSE CASE d[v.next].t = "]" ->
                    [ok |-> TRUE, next |-> v.next + 1, value |-> PyDict,
                     items |-> <<v.value>>]
               [] d[v.next].t = "," ->
                    LET r == ParseItems(d, v.next + 1)
                    IN  IF r.ok
                        THEN [ok |-> TRUE, next |-> r.next, value |-> PyDict,
                              items |-> <<v.value>> \o r.items]
                        ELSE ParseFail
               [] OTHER -> ParseFail

\* json.load(open(path, "r", encoding="utf-8")): the whole file is decoded,
\* then parsed as exactly one value
JsonLoad(d) ==
    IF \E i \in 1..Len(d) : d[i] = BadByte
    THEN [status |-> "UnicodeDecodeError", value |-> PyDict]
    ELSE LET p == ParseValue(d, 1)
         IN  IF p.ok /\ p.next = Len(d) + 1
             THEN [status |-> "ok", value |-> p.value]
             ELSE [status |-> "JSONDecodeError", value |-> PyDict]

IsPrefix(a, b) == Len(a) <= Len(b) /\ SubSeq(b, 1, Len(a)) = a

(***************************************************************************)
(* The working directory.                                                  *)
(***************************************************************************)
POSTED_SLANGS_FILE == "posted_slangs.json"
PostedBackup == "posted_slangs.bak"       \* POSTED_SLANGS_FILE.with_suffix(".bak")
SCRIPTS_FILE == "scripts.json"
ScriptsBackup == "scripts.bak"             \* where a backup of scripts.json would go
Paths == {POSTED_SLANGS_FILE, PostedBackup, SCRIPTS_FILE, ScriptsBackup}

RECURSIVE SeqsUpTo(_, _)
SeqsUpTo(S, n) ==
    IF n = 0 THEN {<<>>}
    ELSE LET shorter == SeqsUpTo(S, n - 1)
         IN  shorter \cup {Append(q, x) : q \in shorter, x \in S}

\* what a history file can hold when the process starts: nothing, zero bytes,
\* truncated JSON, bytes that are not UTF-8, JSON that is no array, or an array
NonListFiles ==
    {File(<<>>), File(<<Tok("[")>>), File(<<BadByte>>), File(<<Tok("{"), Tok("}")>>)}

StartFiles(items) ==
    {Absent} \cup NonListFiles
        \cup {File(JsonDump(PyList(h))) : h \in SeqsUpTo(items, MaxHist)}

\* the backup the first invocation finds: one left by an earlier recovery, taken
\* up next to a history file that is again no list; a later invocation finds
\* whatever the invocation before it left
StartBackups(posted) ==
    IF posted \in NonListFiles THEN {Absent, File(<<Tok("]")>>)} ELSE {Absent}

(***************************************************************************)
(* x.py                                                                    *)
(***************************************************************************)
XCredentials == {"GEMINI_API_KEY", "X_API_KEY", "X_API_KEY_SECRET",
                 "X_ACCESS_TOKEN", "X_ACCESS_TOKEN_SECRET"}

NoResponse == [kind |-> "none", text |-> <<>>]
GenResponses ==
    {[kind |-> "blocked", text |-> <<>>], [kind |-> "error", text |-> <<>>]}
        \cup {[kind |-> "text", text |-> t] : t \in Texts}
PostOutcomes == {"ok", "no_id", "tweepy_error", "other_error"}

\* setup_clients: all([...]) over the five os.getenv values
AllPresentIgnoringGemini(e) == (XCredentials \ {"GEMINI_API_KEY"}) \subseteq e

XCredentialsPresent(e) == XCredentials \subseteq e

\* load_posted_items: the returned value (or the exception raised) and the
\* directory it leaves behind
load_posted_items(f) ==
    IF ~f[POSTED_SLANGS_FILE].exists
    THEN [raised |-> "none", value |-> PyList(<<>>), fs |-> f]
    ELSE LET p == JsonLoad(f[POSTED_SLANGS_FILE].data)
         IN  CASE p.status = "ok" ->
                    [raised |-> "none", value |-> p.value, fs |-> f]
               [] p.status = "UnicodeDecodeError" ->
                    [raised |-> "UnicodeDecodeError", value |-> PyDict, fs |-> f]
               [] p.status = "JSONDecodeError" ->
                    \* Path.rename, as on POSIX: an existing target is replaced
                    [raised |-> "none", value |-> PyList(<<>>),
                     fs |-> [f EXCEPT ![PostedBackup] = f[POSTED_SLANGS_FILE],
                                      ![POSTED_SLANGS_FILE] = Absent]]

\* save_posted_items
save_posted_items(f, items_list) ==
    [f EXCEPT ![POSTED_SLANGS_FILE] = File(JsonDump(items_list))]

\* generate_tweet_content line 76: ", ".join(existing_items) raises TypeError
\* for a non-empty list holding anything but strings
JoinRaises(v) ==
    v.type = "list" /\ \E i \in 1..Len(v.items) : v.items[i].type # "str"

\* generate_tweet_content, lines 150-153: the key taken from the lines
ExtractItemNoTrim(lines) ==
    IF Len(lines) > 1 /\ HasMarker(lines[1]) THEN Str(lines[2]) ELSE None

ExtractItem(lines) ==
    IF Len(lines) > 1 /\ HasMarker(lines[1]) THEN Str(Strip(lines[2])) ELSE None

\* generate_tweet_content, line 147: response.text.strip().replace(backtick, "")
NormalizeText(text) == Remove(Strip(text), BT)

\* generate_tweet_content: (tweet_text, new_item)
generate_tweet_content(resp) ==
    IF resp.kind # "text"
    THEN [tweet_text |-> None, new_item |-> None]
    ELSE LET text == NormalizeText(resp.text)
         IN  [tweet_text |-> Str(text), new_item |-> ExtractItem(Split(text))]

\* post_to_x: what it returns, or that it raises
PostSucceededAlsoWithoutId(outcome) == outcome \in {"ok", "no_id"}

PostSucceeded(outcome) == outcome = "ok"

post_to_x(outcome) ==
    [raised |-> outcome = "other_error", ret |-> PostSucceeded(outcome)]

\* the process ends: sys.exit(1), or main returns after its finally block
XExit(code, msgs) ==
    /\ pc' = "exited"
    /\ exit_code' = code
    /\ log' = log \cup msgs
    /\ UNCHANGED exc

\* main lines 203-206: except Exception, then the process ends normally; msgs
\* is what had been printed before the exception was raised
XCaught(e, msgs) ==
    /\ pc' = "exited"
    /\ exit_code' = 0
    /\ log' = log \cup msgs \cup {"unexpected_error"}
    /\ exc' = e

\* main line 183: setup_clients()
XSetupClients ==
    /\ program = "x.py" /\ pc = "setup"
    /\ IF ~XCredentialsPresent(env)
       THEN /\ XExit(1, {"config_error"})
            /\ UNCHANGED calls
       ELSE \E auth_ok \in BOOLEAN :
              /\ calls' = calls \cup {"get_me"}
              /\ IF auth_ok
                 THEN /\ pc' = "load"
                      /\ UNCHANGED << exit_code, log, exc >>
                 ELSE XExit(1, {"auth_error"})
    /\ UNCHANGED << program, env, fs, fs0, xvars, mvars, svars >>

\* main line 186: existing_items = load_posted_items()
XLoad ==
    /\ program = "x.py" /\ pc = "load"
    /\ LET r == load_posted_items(fs)
       IN  IF r.raised # "none"
           THEN /\ XCaught(r.raised, {})
                /\ UNCHANGED << fs, existing_items >>
           ELSE /\ fs' = r.fs
                /\ existing_items' = r.value
                /\ pc' = "generate"
                /\ UNCHANGED << exit_code, log, exc >>
    /\ UNCHANGED << program, env, fs0, calls, response, tweet_text,
                    new_item, post_outcome, saved, mvars, svars >>

\* main lines 189-192: generate_tweet_content(existing_items)
XGenerate ==
    /\ program = "x.py" /\ pc = "generate"
    /\ IF JoinRaises(existing_items)
       THEN /\ XCaught("TypeError", {})
            /\ UNCHANGED << response, tweet_text, new_item, calls >>
       ELSE \E resp \in GenResponses :
              LET g == generate_tweet_content(resp)
              IN  /\ response' = resp
                  /\ tweet_text' = g.tweet_text
                  /\ new_item' = g.new_item
                  /\ calls' = calls \cup {"generate"}
                  /\ IF ~Truthy(g.tweet_text)
                     THEN XExit(0, {"no_content"})
                     ELSE /\ pc' = "post"
                          /\ UNCHANGED << exit_code, log, exc >>
    /\ UNCHANGED << program, env, fs, fs0, existing_items,
                    post_outcome, saved, mvars, svars >>

\* main lines 195-206: post_to_x and the history update
XPost ==
    /\ program = "x.py" /\ pc = "post"
    /\ \E outcome \in PostOutcomes :
         LET r == post_to_x(outcome)
         IN  /\ post_outcome' = outcome
             /\ calls' = calls \cup {"post"}
             /\ CASE r.raised ->
                       /\ XCaught("Exception", {})
                       /\ UNCHANGED << fs, saved, existing_items >>
                  [] ~r.raised /\ ~r.ret ->
                       /\ XExit(0, IF outcome = "tweepy_error" THEN {"post_error"} ELSE {})
                       /\ UNCHANGED << fs, saved, existing_items >>
                  [] ~r.raised /\ r.ret /\ ~Truthy(new_item) ->
                       /\ XExit(0, {"posted", "warning_no_key"})
                       /\ UNCHANGED << fs, saved, existing_items >>
                  [] ~r.raised /\ r.ret /\ Truthy(new_item) ->
                       IF existing_items.type = "list"
                       THEN \* line 198 appends to the list in place
                            /\ existing_items' = PyList(Append(existing_items.items,
                                                               PyStr(new_item.s)))
                            /\ fs' = save_posted_items(fs, existing_items')
                            /\ saved' = TRUE
                            /\ XExit(0, {"posted", "history_added"})
                       ELSE \* existing_items.append raises AttributeError after
                            \* post_to_x printed its success message
                            /\ XCaught("AttributeError", {"posted"})
                            /\ UNCHANGED << fs, saved, existing_items >>
    /\ UNCHANGED << program, env, fs0, response,
                    tweet_text, new_item, mvars, svars >>

XNext == XSetupClients \/ XLoad \/ XGenerate \/ XPost

(***************************************************************************)
(* main.py                                                                 *)
(***************************************************************************)
MainCredentials == {"GEMINI_API_KEY", "OPENAI_API_KEY"}

\* an element of the generated array: an object whose english_script is a
\* non-empty string ("ok"), is missing ("nokey") or is the empty string
\* ("empty"), or a value that is not an object ("nondict"); line 115 checks
\* only that the response is a list
ScriptKinds == {"ok", "nokey", "empty", "nondict"}

\* the Python value of an element of each kind
ScriptValue(kind) == IF kind = "nondict" THEN PyStr(<<"a">>) ELSE PyScript(kind)

\* what the streamed Gemini response amounts to.  "request_error":
\* generate_content itself raises AttributeError or JSONDecodeError, before
\* full_response_text is assigned; "stream_error": any other exception of the
\* request, or an exception while the chunks are read
GeminiResponses ==
    {[kind |-> k, items |-> <<>>] :
        k \in {"request_error", "stream_error", "not_json", "not_list"}}
        \cup {[kind |-> "list", items |-> b] : b \in SeqsUpTo(ScriptKinds, MaxBatch)}

RenderOutcomes == {"mp3_error", "ok", "npx_missing", "exit_nonzero", "other_error"}

\* setup_environment, line 31
MainCredentialsPresent(e) == MainCredentials \subseteq e

\* main line 234
IsFirstTime(f) == ~f[SCRIPTS_FILE].exists \/ Len(f[SCRIPTS_FILE].data) = 0

\* generate_script_with_gemini line 56
NumToGenerateSwapped(first) == IF first THEN LaterCount ELSE FirstTimeCount

NumToGenerate(first) == IF first THEN FirstTimeCount ELSE LaterCount

\* generate_script_with_gemini: whether it raised, the count it asked the model
\* for (0: no request was sent), the list it returned, the directory afterwards
generate_script_with_gemini(f, first, resp) ==
    LET load ==
            IF f[SCRIPTS_FILE].exists /\ Len(f[SCRIPTS_FILE].data) > 0
            THEN JsonLoad(f[SCRIPTS_FILE].data)
            ELSE [status |-> "ok", value |-> PyList(<<>>)]
        scripts_data == load.value
        objs == [i \in 1..Len(resp.items) |-> ScriptValue(resp.items[i])]
    IN  CASE load.status # "ok" ->
               [raised |-> load.status, requested |-> 0, ret |-> <<>>, fs |-> f]
          [] load.status = "ok" /\ resp.kind = "request_error" ->
               \* the handler of line 117 formats full_response_text, which line
               \* 108 has not assigned yet
               [raised |-> "UnboundLocalError", requested |-> NumToGenerate(first),
                ret |-> <<>>, fs |-> f]
          [] load.status = "ok" /\ resp.kind \in {"stream_error", "not_json", "not_list"} ->
               [raised |-> "none", requested |-> NumToGenerate(first),
                ret |-> <<>>, fs |-> f]
          [] load.status = "ok" /\ resp.kind = "list" /\ scripts_data.type # "list" ->
               [raised |-> "AttributeError", requested |-> NumToGenerate(first),
                ret |-> <<>>, fs |-> f]
          [] load.status = "ok" /\ resp.kind = "list" /\ scripts_data.type = "list" ->
               [raised |-> "none", requested |-> NumToGenerate(first),
                ret |-> resp.items,
                fs |-> [f EXCEPT ![SCRIPTS_FILE] =
                                   File(JsonDump(PyList(scripts_data.items \o objs)))]]

\* main lines 278-281: which handler takes an exception
IsValueError(e) == e \in {"ValueError", "JSONDecodeError", "UnicodeDecodeError"}
Handler(e) == IF IsValueError(e) THEN "config_error" ELSE "unexpected_error"

\* generate_audio_with_openai line 142: script.get raises AttributeError on a
\* value that is not an object, outside the try block of line 150
GetRaises(kind) == kind = "nondict"

\* generate_audio_with_openai lines 142-145: the script is skipped
SkipsTts(kind) == kind \in {"nokey", "empty"}


\* main line 253: zip(new_scripts, audio_paths)
ZipLen(scripts, paths) == Min({Len(scripts), Len(paths)})

\* an early return or the end of the try block: on to the finally block
ToFinally(msgs) ==
    /\ pc' = "finally"
    /\ log' = log \cup msgs
    /\ UNCHANGED exc

\* an exception leaves the try block through its handler
Raise(e) ==
    /\ pc' = "finally"
    /\ log' = log \cup {Handler(e)}
    /\ exc' = e

\* main line 228: server_thread.start()
StartServerThread ==
    /\ program = "main.py" /\ pc = "start"
    /\ \E started \in BOOLEAN :
         IF started
         THEN /\ wpc' = "entry"
              /\ pc' = "setup"
              /\ UNCHANGED << log, exc >>
         ELSE \* RuntimeError: can't start new thread
              /\ Raise("RuntimeError")
              /\ UNCHANGED wpc
    /\ UNCHANGED << program, env, fs, fs0, calls, exit_code, xvars, mvars,
                    shutdown_request, is_shut_down, socket_open >>

\* main line 230: setup_environment()
SetupEnvironment ==
    /\ program = "main.py" /\ pc = "setup"
    /\ IF MainCredentialsPresent(env)
       THEN /\ pc' = "mkdirs"
            /\ UNCHANGED << log, exc >>
       ELSE Raise("ValueError")
    /\ UNCHANGED << program, env, fs, fs0, calls, exit_code, xvars, mvars, svars >>

\* main line 231: create_directories()
CreateDirectories ==
    /\ program = "main.py" /\ pc = "mkdirs"
    /\ \E made \in BOOLEAN :
         IF made
         THEN /\ pc' = "generate"
              /\ UNCHANGED << log, exc >>
         ELSE Raise("OSError")
    /\ UNCHANGED << program, env, fs, fs0, calls, exit_code, xvars, mvars, svars >>

\* main lines 234-240: first-run detection and generate_script_with_gemini
GenerateScripts ==
    /\ program = "main.py" /\ pc = "generate"
    /\ \E resp \in GeminiResponses :
         LET first == IsFirstTime(fs)
             g == generate_script_with_gemini(fs, first, resp)
         IN  /\ is_first_time' = first
             /\ num_requested' = g.requested
             /\ calls' = IF g.requested > 0 THEN calls \cup {"generate"} ELSE calls
             /\ fs' = g.fs
             /\ new_scripts' = g.ret
             /\ IF g.raised # "none" THEN Raise(g.raised)
                ELSE IF g.ret = <<>> THEN ToFinally({"no_scripts"})
                ELSE /\ pc' = "tts"
                     /\ UNCHANGED << log, exc >>
    /\ UNCHANGED << program, env, fs0, exit_code, xvars, tts_i, tts_calls,
                    audio_paths, render_k, render_visits, render_calls, failed, svars >>

\* generate_audio_with_openai lines 141-162: one iteration of the loop
TtsItem ==
    /\ program = "main.py" /\ pc = "tts" /\ tts_i < Len(new_scripts)
    /\ IF GetRaises(new_scripts[tts_i + 1])
       THEN \* the exception leaves the function and main's try block
            /\ Raise("AttributeError")
            /\ UNCHANGED << tts_i, calls, tts_calls, audio_paths, failed >>
       ELSE IF SkipsTts(new_scripts[tts_i + 1])
       THEN /\ tts_i' = tts_i + 1
            /\ log' = log \cup {"warning_no_english_script"}
            /\ UNCHANGED << calls, tts_calls, audio_paths, failed, pc, exc >>
       ELSE \E synthesized \in BOOLEAN :
              \* lines 161-162: the exception of the TTS call is caught inside
              \* the loop body, so the loop goes on with the next script
              /\ tts_i' = tts_i + 1
              /\ calls' = calls \cup {"tts"}
              /\ tts_calls' = Append(tts_calls, tts_i)
              /\ UNCHANGED << log, pc, exc >>
              /\ IF synthesized
                 THEN /\ audio_paths' = Append(audio_paths, tts_i)
                      /\ UNCHANGED failed
                 ELSE /\ failed' = failed \cup
                            {[stage |-> "tts", item |-> tts_i, error |-> "tts_error"]}
                      /\ UNCHANGED audio_paths
    /\ UNCHANGED << program, env, fs, fs0, exit_code, xvars, is_first_time,
                    num_requested, new_scripts, render_k, render_visits, render_calls,
                    svars >>

\* generate_audio_with_openai line 164 and main lines 246-248
TtsDone ==
    /\ program = "main.py" /\ pc = "tts" /\ tts_i = Len(new_scripts)
    /\ IF audio_paths = <<>>
       THEN ToFinally({"no_audio"})
       ELSE /\ pc' = "render"
            /\ UNCHANGED << log, exc >>
    /\ UNCHANGED << program, env, fs, fs0, calls, exit_code, xvars, mvars, svars >>

\* main lines 253-273: one iteration over zip(new_scripts, audio_paths)
RenderItem ==
    /\ program = "main.py" /\ pc = "render"
    /\ render_k < ZipLen(new_scripts, audio_paths)
    /\ LET script == render_k
           audio == audio_paths[render_k + 1]
       IN  /\ render_k' = render_k + 1
           /\ render_visits' = Append(render_visits, audio)
           /\ \E outcome \in RenderOutcomes :
                CASE outcome = "mp3_error" ->
                       \* MP3(audio_path) raises
                       /\ failed' = failed \cup
                            {[stage |-> "render", item |-> audio, error |-> "mp3_error"]}
                       /\ UNCHANGED << calls, render_calls >>
                  [] outcome # "mp3_error" /\ new_scripts[script + 1] = "nokey" ->
                       \* script["english_script"] raises KeyError
                       /\ failed' = failed \cup
                            {[stage |-> "render", item |-> audio, error |-> "KeyError"]}
                       /\ UNCHANGED << calls, render_calls >>
                  [] outcome # "mp3_error" /\ new_scripts[script + 1] # "nokey" ->
                       /\ calls' = calls \cup {"render"}
                       /\ render_calls' =
                            Append(render_calls, [script |-> script, audio |-> audio])
                       /\ failed' = IF outcome = "ok" THEN failed
                                    ELSE failed \cup
                                      {[stage |-> "render", item |-> audio, error |-> outcome]}
    /\ UNCHANGED << program, env, fs, fs0, pc, log, exit_code, exc, xvars,
                    is_first_time, num_requested, new_scripts, tts_i, tts_calls,
                    audio_paths, svars >>

\* main line 276: the summary after the loop
RenderDone ==
    /\ program = "main.py" /\ pc = "render"
    /\ render_k = ZipLen(new_scripts, audio_paths)
    /\ ToFinally({"complete"})
    /\ UNCHANGED << program, env, fs, fs0, calls, exit_code, xvars, mvars, svars >>

\* main line 285, httpd.shutdown(): self.__shutdown_request = True
ShutdownRequest ==
    /\ program = "main.py" /\ pc = "finally"
    /\ shutdown_request' = TRUE
    /\ pc' = "shutdown_wait"
    /\ UNCHANGED << program, env, fs, fs0, log, calls, exit_code, exc, xvars, mvars,
                    wpc, is_shut_down, socket_open >>

\* main line 285, httpd.shutdown(): self.__is_shut_down.wait() returns
ShutdownReturn ==
    /\ program = "main.py" /\ pc = "shutdown_wait"
    /\ is_shut_down
    /\ pc' = "close"
    /\ UNCHANGED << program, env, fs, fs0, log, calls, exit_code, exc, xvars, mvars,
                    svars >>

\* main line 286: httpd.server_close()
ServerClose ==
    /\ program = "main.py" /\ pc = "close"
    /\ socket_open' = FALSE
    /\ pc' = "join"
    /\ UNCHANGED << program, env, fs, fs0, log, calls, exit_code, exc, xvars, mvars,
                    wpc, shutdown_request, is_shut_down >>

\* main line 287: server_thread.join(timeout=2), then main returns
JoinAndReturn ==
    /\ program = "main.py" /\ pc = "join"
    /\ pc' = "exited"
    /\ exit_code' = 0
    /\ UNCHANGED << program, env, fs, fs0, log, calls, exc, xvars, mvars, svars >>

\* the worker, main line 223: serve_forever clears the event on entry
ServeForeverEnter ==
    /\ program = "main.py" /\ wpc = "entry"
    /\ is_shut_down' = FALSE
    /\ wpc' = "loop"
    /\ UNCHANGED << program, env, fs, fs0, pc, log, calls, exit_code, exc, xvars,
                    mvars, shutdown_request, socket_open >>

\* the worker: the serving loop sees the shutdown request and leaves
ServeLoopExit ==
    /\ program = "main.py" /\ wpc = "loop"
    /\ shutdown_request
    /\ wpc' = "exit"
    /\ UNCHANGED << program, env, fs, fs0, pc, log, calls, exit_code, exc, xvars,
                    mvars, shutdown_request, is_shut_down, socket_open >>

\* the worker: serve_forever's finally resets the request and sets the event
ServeForeverFinally ==
    /\ program = "main.py" /\ wpc = "exit"
    /\ shutdown_request' = FALSE
    /\ is_shut_down' = TRUE
    /\ wpc' = "done"
    /\ UNCHANGED << program, env, fs, fs0, pc, log, calls, exit_code, exc, xvars,
                    mvars, socket_open >>

MainThread ==
    \/ StartServerThread \/ SetupEnvironment \/ CreateDirectories
    \/ GenerateScripts \/ TtsItem \/ TtsDone \/ RenderItem \/ RenderDone
    \/ ShutdownRequest \/ ShutdownReturn \/ ServerClose \/ JoinAndReturn

Worker == ServeForeverEnter \/ ServeLoopExit \/ ServeForeverFinally

MNext == MainThread \/ Worker

(***************************************************************************)
(* Specifications.                                                         *)
(***************************************************************************)
Dir(posted, backup, scripts) ==
    [p \in Paths |->
        CASE p = POSTED_SLANGS_FILE -> posted
          [] p = PostedBackup -> backup
          [] p = SCRIPTS_FILE -> scripts
          [] p = ScriptsBackup -> Absent]

\* the history file of each program and the values of its items at the start
\* of an invocation, two different ones
HistoryFileOf(prog) == IF prog = "x.py" THEN POSTED_SLANGS_FILE ELSE SCRIPTS_FILE

StartItems(prog) ==
    IF prog = "x.py"
    THEN {PyStr(<<"a">>), PyStr(<<"a", "a">>)}
    ELSE {ScriptValue("ok"), ScriptValue("nondict")}

\* the directories the first invocation of each program is started on
StartDirsOf(prog) ==
    IF prog = "x.py"
    THEN UNION {{Dir(posted, backup, Absent) : backup \in StartBackups(posted)} :
                    posted \in StartFiles(StartItems(prog))}
    ELSE {Dir(Absent, Absent, scripts) : scripts \in StartFiles(StartItems(prog))}

\* the state of a process that has just been started
InitCommon ==
    /\ fs0 = fs
    /\ log = {}
    /\ calls = {}
    /\ exit_code = -1
    /\ exc = "none"
    /\ existing_items = PyList(<<>>)
    /\ response = NoResponse
    /\ tweet_text = None
    /\ new_item = None
    /\ post_outcome = "none"
    /\ saved = FALSE
    /\ is_first_time = FALSE
    /\ num_requested = 0
    /\ new_scripts = <<>>
    /\ tts_i = 0
    /\ tts_calls = <<>>
    /\ audio_paths = <<>>
    /\ render_k = 0
    /\ render_visits = <<>>
    /\ render_calls = <<>>
    /\ failed = {}
    /\ wpc = "not_started"
    /\ shutdown_request = FALSE
    /\ is_shut_down = FALSE

\* python x.py
XInit ==
    /\ program = "x.py"
    /\ pc = "setup"
    /\ env \in SUBSET XCredentials
    /\ fs \in StartDirsOf("x.py")
    /\ socket_open = FALSE
    /\ InitCommon

\* python main.py, once httpd = TCPServer(...) has bound the port (line 222)
MInit ==
    /\ program = "main.py"
    /\ pc = "start"
    /\ env \in SUBSET MainCredentials
    /\ fs \in StartDirsOf("main.py")
    /\ socket_open = TRUE
    /\ InitCommon

Init == XInit \/ MInit

\* the program is invoked again (x.py line 209, main.py line 290) on the
\* directory the previous invocation left, backup included, with the same
\* environment, as long as the history file is within the bounds of the model
NextRun ==
    /\ pc = "exited"
    /\ fs[HistoryFileOf(program)] \in StartFiles(StartItems(program))
    /\ UNCHANGED << program, env, fs >>
    /\ pc' = IF program = "x.py" THEN "setup" ELSE "start"
    /\ socket_open' = (program = "main.py")
    /\ fs0' = fs
    /\ log' = {}
    /\ calls' = {}
    /\ exit_code' = -1
    /\ exc' = "none"
    /\ existing_items' = PyList(<<>>)
    /\ response' = NoResponse
    /\ tweet_text' = None
    /\ new_item' = None
    /\ post_outcome' = "none"
    /\ saved' = FALSE
    /\ is_first_time' = FALSE
    /\ num_requested' = 0
    /\ new_scripts' = <<>>
    /\ tts_i' = 0
    /\ tts_calls' = <<>>
    /\ audio_paths' = <<>>
    /\ render_k' = 0
    /\ render_visits' = <<>>
    /\ render_calls' = <<>>
    /\ failed' = {}
    /\ wpc' = "not_started"
    /\ shutdown_request' = FALSE
    /\ is_shut_down' = FALSE

Next == XNext \/ MNext \/ NextRun

Spec == Init /\ [][Next]_vars

\* the video pipeline alone, its two threads scheduled fairly
FairVideo ==
    /\ MInit
    /\ [][MNext]_vars
    /\ WF_vars(MainThread)
    /\ WF_vars(Worker)

(***************************************************************************)
(* Properties.                                                             *)
(***************************************************************************)
\* the history a file holds, as the next load would see it
IsHistory(file) ==
    file.exists /\ LET r == JsonLoad(file.data)
                   IN  r.status = "ok" /\ r.value.type = "list"
History(file) == IF file.exists THEN JsonLoad(file.data).value.items ELSE <<>>

\* the file is there and json.load cannot read it
Unreadable(file) == file.exists /\ JsonLoad(file.data).status # "ok"

PostFailed == program = "x.py" /\ post_outcome \in {"no_id", "tweepy_error", "other_error"}

\* C1 (as claimed): whenever post_to_x did not report success, posted_slangs.json
\* holds exactly what it held before the run and save_posted_items was not called.
C1_Original ==
    PostFailed => ~saved /\ fs[POSTED_SLANGS_FILE] = fs0[POSTED_SLANGS_FILE]

\* C1 (amended): whenever post_to_x did not report success, save_posted_items was
\* not called and no key was appended; posted_slangs.json holds exactly what it
\* held before the run, unless it failed to parse at load time, in which case it
\* has been moved, unchanged, to posted_slangs.bak and is absent.
C1_FailedPostKeepsHistory ==
    PostFailed =>
        /\ ~saved
        /\ \/ fs[POSTED_SLANGS_FILE] = fs0[POSTED_SLANGS_FILE]
           \/ /\ fs0[POSTED_SLANGS_FILE].exists
              /\ JsonLoad(fs0[POSTED_SLANGS_FILE].data).status = "JSONDecodeError"
              /\ fs[POSTED_SLANGS_FILE] = Absent
              /\ fs[PostedBackup] = fs0[POSTED_SLANGS_FILE]

\* a platform error after a non-empty valid history was loaded and a key extracted
C1_Witness ==
    /\ PostFailed /\ pc = "exited" /\ post_outcome = "tweepy_error"
    /\ IsHistory(fs0[POSTED_SLANGS_FILE]) /\ History(fs0[POSTED_SLANGS_FILE]) # <<>>
    /\ Truthy(new_item)

\* C2 (as claimed): a generation request sent when scripts.json was absent or zero
\* bytes long asks for the larger (batch) count, and one sent when scripts.json was
\* present and non-empty asks for the smaller (single item) count.
C2_Original ==
    (program = "main.py" /\ num_requested > 0) =>
        num_requested = IF IsFirstTime(fs0)
                        THEN Max({FirstTimeCount, LaterCount})
                        ELSE Min({FirstTimeCount, LaterCount})

\* C2 (amended): a generation request sent when scripts.json was absent or zero
\* bytes long asks for 1 script, the smaller count; one sent when scripts.json was
\* present and non-empty asks for 10, the larger count.
C2_FirstRunAsksForOne ==
    (program = "main.py" /\ num_requested > 0) =>
        /\ IsFirstTime(fs0) => num_requested = 1
        /\ ~IsFirstTime(fs0) => num_requested = 10
        /\ is_first_time = IsFirstTime(fs0)

\* a first-ever run whose request produced scripts
C2_Witness ==
    /\ program = "main.py" /\ ~fs0[SCRIPTS_FILE].exists
    /\ num_requested = 1 /\ new_scripts # <<>>

\* load_posted_items has run and nothing after it has touched the directory
AfterLoad ==
    /\ program = "x.py"
    /\ \/ pc = "generate"
       \/ pc = "exited" /\ exc = "UnicodeDecodeError"

\* C3: when posted_slangs.json exists but cannot be parsed, load_posted_items
\* returns an empty list without raising, the content is kept under
\* posted_slangs.bak and the original path no longer holds it; when the file is
\* absent it returns an empty list and creates no backup.
C3_Claim ==
    AfterLoad =>
        /\ Unreadable(fs0[POSTED_SLANGS_FILE]) =>
              /\ exc = "none"
              /\ existing_items = PyList(<<>>)
              /\ fs[PostedBackup] = fs0[POSTED_SLANGS_FILE]
              /\ ~fs[POSTED_SLANGS_FILE].exists
        /\ ~fs0[POSTED_SLANGS_FILE].exists =>
              /\ exc = "none"
              /\ existing_items = PyList(<<>>)
              /\ fs = fs0

\* generate_script_with_gemini has been called
AfterGenerate ==
    /\ program = "main.py"
    /\ wpc # "not_started" /\ MainCredentialsPresent(env) /\ exc # "OSError"
    /\ pc \notin {"start", "setup", "mkdirs", "generate"}

\* C4: a scripts.json that is present, non-empty and does not parse does not abort
\* the run: the file is renamed aside as a backup, the history is taken as empty
\* and the generation request is still sent.
C4_Claim ==
    (AfterGenerate /\ fs0[SCRIPTS_FILE].data # <<>> /\ Unreadable(fs0[SCRIPTS_FILE])) =>
        /\ "generate" \in calls
        /\ exc = "none"
        /\ fs[ScriptsBackup] = fs0[SCRIPTS_FILE]

\* the server is torn down: shutdown() has returned, server_close() has run and
\* no worker is serving
TornDown ==
    /\ pc \in {"join", "exited"}
    /\ ~socket_open
    /\ wpc \in {"not_started", "done"}

\* C5: on every path of main.py main the file server is eventually torn down:
\* httpd.shutdown() returns, httpd.server_close() runs and the worker stops.
C5_Claim == <>TornDown

\* what holds of the code: once the worker thread has started, tear-down follows
C5_TornDownOnceStarted == (wpc # "not_started") ~> TornDown

\* the history files
HistoryFiles == {POSTED_SLANGS_FILE, SCRIPTS_FILE}

\* the history file was absent or a list when the run started (for main.py a
\* zero-byte file counts as an empty history, line 234)
ValidAtStart ==
    IF program = "x.py"
    THEN IsHistory(fs0[POSTED_SLANGS_FILE]) \/ ~fs0[POSTED_SLANGS_FILE].exists
    ELSE IsHistory(fs0[SCRIPTS_FILE]) \/ IsFirstTime(fs0)

\* what a run has done to the history it started from (valid or absent): once
\* the run has touched the file, it holds a list that extends that history;
\* after a post that succeeded with key k, the next load_posted_items returns the
\* history followed by k, provided keyed(k); main.py has extended scripts.json
\* with exactly the scripts it generated, in order
RunAppends(keyed(_)) ==
    /\ (fs[HistoryFileOf(program)] # fs0[HistoryFileOf(program)] /\ ValidAtStart) =>
          /\ IsHistory(fs[HistoryFileOf(program)])
          /\ IsPrefix(History(fs0[HistoryFileOf(program)]),
                      History(fs[HistoryFileOf(program)]))
    /\ (program = "x.py" /\ pc = "exited" /\ post_outcome = "ok" /\ keyed(new_item)
            /\ ValidAtStart) =>
          LET r == load_posted_items(fs)
          IN  /\ r.raised = "none"
              /\ r.value = PyList(Append(History(fs0[POSTED_SLANGS_FILE]),
                                         PyStr(new_item.s)))
    /\ (program = "main.py" /\ new_scripts # <<>> /\ ValidAtStart) =>
          /\ IsHistory(fs[SCRIPTS_FILE])
          /\ History(fs[SCRIPTS_FILE]) =
               History(fs0[SCRIPTS_FILE])
                  \o [i \in 1..Len(new_scripts) |-> ScriptValue(new_scripts[i])]

Extracted(k) == ~k.isNone

\* a step, of any run, keeps every item of a valid history in place
StepKeepsHistory ==
    \A f \in HistoryFiles :
        (fs'[f] # fs[f] /\ IsHistory(fs[f])) =>
            /\ IsHistory(fs'[f])
            /\ IsPrefix(History(fs[f]), History(fs'[f]))

\* a post that succeeded with no key or an empty one leaves a valid history file
\* as it was
EmptyKeyKeepsHistory ==
    (program = "x.py" /\ pc = "exited" /\ post_outcome = "ok" /\ ~Truthy(new_item)
        /\ ValidAtStart) =>
            /\ ~saved
            /\ fs[POSTED_SLANGS_FILE] = fs0[POSTED_SLANGS_FILE]

\* C6 (as claimed): the history store is append-only and order-preserving.  After
\* a run of x.py that posted with an extracted key k over a valid (or absent)
\* history H, the next load_posted_items returns H followed by k; the history a
\* run started from is a prefix of the history on disk; and main.py extends
\* scripts.json with exactly the scripts it generated, in order.
C6_Original == RunAppends(Extracted)

\* C6 (amended): as claimed when the extracted key is not empty; a post that
\* succeeded with an empty key appends nothing.  Over any sequence of runs every
\* step keeps the items of a valid history file, in their order, at the front
\* of the file.
C6_AppendOnly ==
    /\ [](RunAppends(Truthy) /\ EmptyKeyKeepsHistory)
    /\ [][StepKeepsHistory]_vars

\* a run started from a history of two different items, and its successful post
\* put a key behind them
C6_Witness ==
    /\ program = "x.py" /\ pc = "exited" /\ saved
    /\ History(fs0[POSTED_SLANGS_FILE]) = << PyStr(<<"a", "a">>), PyStr(<<"a">>) >>
    /\ History(fs[POSTED_SLANGS_FILE])
          = << PyStr(<<"a", "a">>), PyStr(<<"a">>), PyStr(new_item.s) >>

Generated == program = "x.py" /\ response.kind = "text" /\ pc \in {"post", "exited"}

\* C7 (as claimed): when the first line of the response contains the marker and
\* there is a second line, the key is that second line trimmed; when the first line
\* lacks the marker or there is one line only, the key is none, the text is still
\* returned, and the run ends with the warning printed and the history not updated.
C7_Original ==
    Generated =>
        LET raw == Split(response.text)
        IN  IF Len(raw) > 1 /\ HasMarker(raw[1])
            THEN new_item = Str(Strip(raw[2]))
            ELSE /\ new_item = None
                 /\ ~tweet_text.isNone
                 /\ ~saved
                 /\ pc = "exited" => "warning_no_key" \in log

\* C7 (amended): the lines are those of the response text after it was stripped of
\* surrounding whitespace and its backticks were removed.  When the first of these
\* lines contains the marker and there is a second, the key is the second line
\* trimmed; otherwise the key is none, the (normalised) text is still returned and
\* the history is not updated; the warning is printed exactly when the text is
\* non-empty and the post succeeded.
C7_KeyFromNormalisedText ==
    Generated =>
        LET text == Remove(Strip(response.text), BT)
            lines == Split(text)
        IN  /\ tweet_text = Str(text)
            /\ IF Len(lines) > 1 /\ HasMarker(lines[1])
               THEN /\ ~new_item.isNone
                    /\ new_item.s = Strip(lines[2])
                    /\ new_item.s # <<>> =>
                          ~IsSpace(Head(new_item.s)) /\ ~IsSpace(new_item.s[Len(new_item.s)])
               ELSE /\ new_item = None
                    /\ ~saved
                    /\ pc = "exited" =>
                          ("warning_no_key" \in log <=> (text # <<>> /\ post_outcome = "ok"))

\* a marker line followed by a key with whitespace before it, posted and recorded
C7_Witness ==
    /\ Generated /\ pc = "exited"
    /\ response.text = <<MARK, NL, SP, "a">>
    /\ new_item = Str(<<"a">>)
    /\ saved

CredentialsMissing ==
    \/ program = "x.py" /\ ~(XCredentials \subseteq env)
    \/ program = "main.py" /\ ~(MainCredentials \subseteq env)

NoWorkDone ==
    /\ calls \cap {"generate", "tts", "render", "post"} = {}
    /\ fs = fs0

\* C8 (as claimed): when a required credential is missing, in either pipeline, the
\* process ends in an error exit with a diagnostic, no generation, TTS, render or
\* post call is made and no history file is changed.
C8_Original ==
    CredentialsMissing =>
        /\ NoWorkDone
        /\ pc = "exited" => (exit_code = 1 /\ "config_error" \in log)

\* C8 (amended): when a required credential is missing, no generation, TTS, render
\* or post call is made and no history file is changed, and the diagnostic is
\* printed; x.py ends with exit status 1, while main.py handles the error, tears
\* the server down and ends normally with exit status 0.
C8_MissingConfigStopsWork ==
    CredentialsMissing =>
        /\ NoWorkDone
        /\ pc = "exited" =>
              /\ "config_error" \in log
              /\ exit_code = IF program = "x.py" THEN 1 ELSE 0

\* main.py ended after reporting the missing key
C8_Witness ==
    /\ program = "main.py" /\ CredentialsMissing
    /\ pc = "exited" /\ "config_error" \in log

Range(q) == {q[i] : i \in 1..Len(q)}

\* the asset loops are over
AfterAssets ==
    /\ program = "main.py" /\ new_scripts # <<>>
    /\ pc \in {"finally", "shutdown_wait", "close", "join", "exited"}

\* what C9 says of a run whose asset loops are over: the TTS API was called for
\* every script with a non-empty english_script, the render loop took up every
\* audio file that was produced, and the run ended gracefully (the summary or the
\* no-audio message, no exception)
RecoveredPerItem ==
    /\ tts_i = Len(new_scripts)
    /\ \A i \in 0..(Len(new_scripts) - 1) :
          new_scripts[i + 1] = "ok" => i \in Range(tts_calls)
    /\ Range(render_visits) = Range(audio_paths)
    /\ exc = "none"
    /\ \/ "complete" \in log /\ audio_paths # <<>>
       \/ "no_audio" \in log /\ audio_paths = <<>>

\* C9: for every generated batch, a failure in the TTS stage or the render stage
\* on one item never stops the loop: every later item is still attempted and the
\* run reaches its graceful finish.
C9_Claim == AfterAssets => RecoveredPerItem

\* what holds of the code: batches whose elements are all objects are recovered
\* per item; an element that is not an object ends the TTS loop with an
\* AttributeError that only main's last handler takes
C9_ObjectBatchesRecoverPerItem ==
    (AfterAssets /\ \A i \in 1..Len(new_scripts) : ~GetRaises(new_scripts[i]))
        => RecoveredPerItem

\* in a batch of objects the first item failed in TTS, the next one was
\* synthesized and rendered
C9_ObjectBatchWitness ==
    /\ AfterAssets /\ "complete" \in log
    /\ [stage |-> "tts", item |-> 0, error |-> "tts_error"] \in failed
    /\ 1 \in Range(tts_calls)
    /\ 1 \in Range(render_visits)

\* C10: every render invocation gets the script its audio file was made from.
C10_Claim ==
    program = "main.py" =>
        \A k \in 1..Len(render_calls) : render_calls[k].script = render_calls[k].audio

====
